---- MODULE Spec2Model ----
(***************************************************************************)
(* A model of the four-function calculator of src/src/Calculator.ts.       *)
(*                                                                         *)
(* The calculator keeps its screen as a string (lcd) and its operand as a  *)
(* floating point number (arg).  The screen is modelled as a sequence of   *)
(* one-character strings; a number is a record [k, v]:                     *)
(*   k = "fin"    a finite number, v its value scaled by 10^Scale          *)
(*   k = "nzero"  negative zero                                            *)
(*   k = "inf", "ninf", "nan"   +Infinity, -Infinity, NaN                  *)
(*   k = "null"   the null the constructor and clear() store in arg        *)
(*   k = "oob"    a result the bounded number domain cannot hold           *)
(* parseFloat and Number.prototype.toString are modelled by what they do   *)
(* on those strings and numbers.                                           *)
(*                                                                         *)
(* Bounds.  Digits and points are typed onto a screen of at most MaxLen    *)
(* characters, from the digits of DigitSet.  The arithmetic of two finite  *)
(* operands is modelled only where IEEE-754 double arithmetic agrees with  *)
(* decimal arithmetic: both operands are dyadic (their binary expansion is *)
(* finite, so parseFloat reads them exactly), of magnitude at most MaxAbs, *)
(* and the exact result has at most Scale decimals and magnitude at most   *)
(* MaxAbs; a quotient that is a short decimal is the double nearest to it, *)
(* which toString prints as that decimal.  A button press whose arithmetic *)
(* leaves that domain, or that would store an operand outside it in arg,   *)
(* is not taken.  Within these bounds toString never uses exponent         *)
(* notation.                                                               *)
(***************************************************************************)
EXTENDS Integers, Sequences, FiniteSets

\* ------------------------------------------------------------ bounds
Scale == 1
MaxAbs == 18
MaxLen == 2
DigitSet == {0, 2, 4}

RECURSIVE Pow(_, _)
Pow(b, n) == IF n = 0 THEN 1 ELSE b * Pow(b, n - 1)

S == Pow(10, Scale)
Dyad == Pow(5, Scale)
Limit == MaxAbs * S

Abs(n) == IF n < 0 THEN -n ELSE n

\* ------------------------------------------------------------ numbers
Fin(n) == [k |-> "fin", v |-> n]
NZero == [k |-> "nzero", v |-> 0]
Inf == [k |-> "inf", v |-> 0]
NInf == [k |-> "ninf", v |-> 0]
NaN == [k |-> "nan", v |-> 0]
NULL == [k |-> "null", v |-> 0]
OOB == [k |-> "oob", v |-> 0]

Int10(n) == Fin(n * S)

IsNaN(a) == a.k = "nan"
IsInf(a) == a.k \in {"inf", "ninf"}
IsZero(a) == a.k = "nzero" \/ (a.k = "fin" /\ a.v = 0)
IsNeg(a) == a.k \in {"nzero", "ninf"} \/ (a.k = "fin" /\ a.v < 0)
IsFinite(a) == a.k \in {"fin", "nzero"}
IsDyadic(a) == a.v % Dyad = 0
\* a finite operand the arithmetic is modelled for
InRange(a) == IsDyadic(a) /\ Abs(a.v) <= Limit

\* a number of the domain, or OOB
Bounded(n) == IF Abs(n) <= Limit THEN Fin(n) ELSE OOB
SignedZero(neg) == IF neg THEN NZero ELSE Fin(0)
SignedInf(neg) == IF neg THEN NInf ELSE Inf

FNeg(a) ==
  CASE a.k = "fin" /\ a.v # 0 -> Fin(-a.v)
    [] a.k = "fin" /\ a.v = 0 -> NZero
    [] a.k = "nzero" -> Fin(0)
    [] a.k = "inf" -> NInf
    [] a.k = "ninf" -> Inf
    [] OTHER -> a

\* a + b of IEEE-754
FAdd(a, b) ==
  CASE a.k = "oob" \/ b.k = "oob" -> OOB
    [] IsNaN(a) \/ IsNaN(b) -> NaN
    [] IsInf(a) /\ IsInf(b) -> IF a.k = b.k THEN a ELSE NaN
    [] IsInf(a) -> a
    [] IsInf(b) -> b
    [] IsZero(a) /\ IsZero(b) -> SignedZero(IsNeg(a) /\ IsNeg(b))
    [] IsZero(a) -> b
    [] IsZero(b) -> a
    [] OTHER -> IF InRange(a) /\ InRange(b) THEN Bounded(a.v + b.v) ELSE OOB

\* a - b of IEEE-754
FSub(a, b) == FAdd(a, FNeg(b))

\* a * b of IEEE-754
FMul(a, b) ==
  CASE a.k = "oob" \/ b.k = "oob" -> OOB
    [] IsNaN(a) \/ IsNaN(b) -> NaN
    [] (IsInf(a) /\ IsZero(b)) \/ (IsZero(a) /\ IsInf(b)) -> NaN
    [] IsInf(a) \/ IsInf(b) -> SignedInf(IsNeg(a) # IsNeg(b))
    [] IsZero(a) \/ IsZero(b) -> SignedZero(IsNeg(a) # IsNeg(b))
    [] OTHER ->
         IF InRange(a) /\ InRange(b) /\ (a.v * b.v) % S = 0
         THEN Bounded((a.v * b.v) \div S)
         ELSE OOB

\* a / b of IEEE-754
FDiv(a, b) ==
  CASE a.k = "oob" \/ b.k = "oob" -> OOB
    [] IsNaN(a) \/ IsNaN(b) -> NaN
    [] (IsInf(a) /\ IsInf(b)) \/ (IsZero(a) /\ IsZero(b)) -> NaN
    [] IsInf(a) \/ IsZero(b) -> SignedInf(IsNeg(a) # IsNeg(b))
    [] IsInf(b) \/ IsZero(a) -> SignedZero(IsNeg(a) # IsNeg(b))
    [] OTHER ->
         IF InRange(a) /\ InRange(b) /\ (Abs(a.v) * S) % Abs(b.v) = 0
         THEN LET q == (Abs(a.v) * S) \div Abs(b.v)
              IN  Bounded(IF IsNeg(a) # IsNeg(b) THEN -q ELSE q)
         ELSE OOB

\* a === 0 of JavaScript: true of both zeros, false of null
StrictZero(a) == IsZero(a)

\* ------------------------------------------------------------ strings
DigitStr == <<"0", "1", "2", "3", "4", "5", "6", "7", "8", "9">>
DigitChars == {DigitStr[i] : i \in 1..10}
InfinityStr == <<"I", "n", "f", "i", "n", "i", "t", "y">>
NaNStr == <<"N", "a", "N">>

\* x.toString() of a single digit x
DigitChar(x) == DigitStr[x + 1]
DigitValOf == [c \in DigitChars |-> CHOOSE d \in 0..9 : DigitStr[d + 1] = c]
DigitVal(c) == DigitValOf[c]

\* the decimal digits of a natural number, most significant first
RECURSIVE NatStr(_)
NatStr(n) == IF n < 10 THEN <<DigitChar(n)>>
             ELSE Append(NatStr(n \div 10), DigitChar(n % 10))

\* the digits of the fraction f / 10^w, trailing zeros dropped
RECURSIVE FracStr(_, _)
FracStr(f, w) ==
  IF f = 0 THEN <<>>
  ELSE LET p == Pow(10, w - 1)
       IN  <<DigitChar(f \div p)>> \o FracStr(f % p, w - 1)

\* Number.prototype.toString, radix 10, for the numbers of the domain
\* (below 1e21 and not below 1e-6, so never in exponent notation)
toString(a) ==
  CASE a.k = "inf" -> InfinityStr
    [] a.k = "ninf" -> <<"-">> \o InfinityStr
    [] a.k = "nan" -> NaNStr
    [] a.k = "nzero" -> <<"0">>
    [] a.k = "fin" ->
         LET m == Abs(a.v)
             frac == FracStr(m % S, Scale)
         IN  (IF a.v < 0 THEN <<"-">> ELSE <<>>)
             \o NatStr(m \div S)
             \o (IF frac = <<>> THEN <<>> ELSE <<".">> \o frac)
    [] OTHER -> <<"?">>

\* the longest prefix of s made of decimal digits
RECURSIVE DigitPrefix(_)
DigitPrefix(s) ==
  IF s # <<>> /\ Head(s) \in DigitChars
  THEN <<Head(s)>> \o DigitPrefix(Tail(s))
  ELSE <<>>

Drop(s, n) == SubSeq(s, n + 1, Len(s))
StartsWith(s, p) == Len(s) >= Len(p) /\ SubSeq(s, 1, Len(p)) = p

\* the value of a string of digits read as an integer
RECURSIVE DigitsVal(_)
DigitsVal(s) == IF s = <<>> THEN 0
                ELSE 10 * DigitsVal(SubSeq(s, 1, Len(s) - 1)) + DigitVal(s[Len(s)])

\* the value, scaled by 10^Scale, of a string of at most Scale fraction digits
FracVal(s) == DigitsVal(s) * Pow(10, Scale - Len(s))

\* parseFloat: an optional sign, then Infinity, or digits with an optional
\* point and fraction; what follows the longest such prefix is ignored, and
\* a string with no such prefix is NaN
parseFloat(s) ==
  LET neg == s # <<>> /\ Head(s) = "-"
      body == IF neg THEN Tail(s) ELSE s
      int == DigitPrefix(body)
      rest == Drop(body, Len(int))
      frac == IF rest # <<>> /\ Head(rest) = "." THEN DigitPrefix(Tail(rest)) ELSE <<>>
  IN  CASE StartsWith(body, InfinityStr) -> SignedInf(neg)
        [] int = <<>> /\ frac = <<>> -> NaN
        [] Len(frac) > Scale -> OOB
        [] OTHER ->
             LET m == DigitsVal(int) * S + FracVal(frac)
             IN  IF m = 0 THEN SignedZero(neg)
                 ELSE Fin(IF neg THEN -m ELSE m)

PointCount(s) == Cardinality({i \in 1..Len(s) : s[i] = "."})
DigitCount(s) == Cardinality({i \in 1..Len(s) : s[i] \in DigitChars})
\* s.indexOf('.') === -1
NoPoint(s) == \A i \in 1..Len(s) : s[i] # "."
\* the number of digits after the decimal point of s
FracLen(s) == IF NoPoint(s) THEN 0
              ELSE Len(s) - (CHOOSE i \in 1..Len(s) : s[i] = "." /\ \A j \in 1..(i-1) : s[j] # ".")

\* ------------------------------------------------------------ state
VARIABLES
  lcd,        \* the contents of the screen
  arg,        \* the stored operand, or NULL
  lastOp,     \* the stored operator, or "null"
  overwrite,  \* overwrite mode (TRUE) or append mode (FALSE)
  repeat,     \* repeat mode
  calLog,     \* the logger channels the most recent call notified
  last,       \* the branch taken by the most recent call other than
              \* square() and percent(); "input" for digit, decimal, negate
  typed,      \* the digits entered by the current run of digit calls that
              \* began in overwrite mode; <<>> when there is no such run
  seen        \* the configurations the calculator has been in so far, in
              \* SpecConfigs; {} in Spec, which does not record them

vars == <<lcd, arg, lastOp, overwrite, repeat, calLog, last, typed, seen>>

Ops == {"Add", "Sub", "Mul", "Div"}

\* the calculator's fields as one record
St == [lcd |-> lcd, arg |-> arg, lastOp |-> lastOp,
       overwrite |-> overwrite, repeat |-> repeat, calLog |-> calLog]

\* the fields the constructor sets
InitSt == [lcd |-> <<"0">>, arg |-> NULL, lastOp |-> "null",
           overwrite |-> TRUE, repeat |-> FALSE, calLog |-> {}]

\* highOrLowWarningLog: the numbers of the domain lie strictly between
\* MIN_SAFE_INTEGER and MAX_SAFE_INTEGER, so only the infinities warn
highOrLowWarningLog(l) == IF IsInf(parseFloat(l)) THEN {"warn"} ELSE {}

debugLog == {"debug"}

\* ------------------------------------------------------------ handlers
\* digit() that forgets to leave overwrite mode
digitOnStaysOverwrite(s, x) ==
  LET l == IF s.overwrite THEN <<DigitChar(x)>> ELSE Append(s.lcd, DigitChar(x))
  IN  [s EXCEPT !.lcd = l, !.calLog = debugLog \cup highOrLowWarningLog(l)]

digitOn(s, x) ==
  IF s.overwrite
  THEN LET l == <<DigitChar(x)>>
       IN  [s EXCEPT !.lcd = l, !.overwrite = FALSE,
                     !.calLog = debugLog \cup highOrLowWarningLog(l)]
  ELSE LET l == Append(s.lcd, DigitChar(x))
       IN  [s EXCEPT !.lcd = l,
                     !.calLog = debugLog \cup highOrLowWarningLog(l)]

\* decimal() without the test for a point already there
decimalOnAlwaysAppends(s) ==
  IF s.overwrite
  THEN [s EXCEPT !.lcd = <<"0", ".">>, !.overwrite = FALSE, !.calLog = debugLog]
  ELSE [s EXCEPT !.lcd = Append(s.lcd, "."), !.calLog = debugLog]

decimalOn(s) ==
  IF s.overwrite
  THEN [s EXCEPT !.lcd = <<"0", ".">>, !.overwrite = FALSE, !.calLog = debugLog]
  ELSE IF NoPoint(s.lcd)
  THEN [s EXCEPT !.lcd = Append(s.lcd, "."), !.calLog = debugLog]
  ELSE [s EXCEPT !.calLog = debugLog]

\* negate() that forgets to leave overwrite mode
negateOnStaysOverwrite(s) ==
  IF s.overwrite
  THEN [s EXCEPT !.lcd = <<"0">>, !.calLog = debugLog]
  ELSE IF s.lcd # <<"0">>
  THEN LET l == IF Head(s.lcd) = "-" THEN Tail(s.lcd) ELSE <<"-">> \o s.lcd
       IN  [s EXCEPT !.lcd = l,
                     !.calLog = debugLog \cup highOrLowWarningLog(l)]
  ELSE [s EXCEPT !.calLog = debugLog]

\* negate() that never strips a minus sign
negateOnAlwaysPrepends(s) ==
  IF s.overwrite
  THEN [s EXCEPT !.lcd = <<"0">>, !.overwrite = FALSE, !.calLog = debugLog]
  ELSE IF s.lcd # <<"0">>
  THEN LET l == <<"-">> \o s.lcd
       IN  [s EXCEPT !.lcd = l,
                     !.calLog = debugLog \cup highOrLowWarningLog(l)]
  ELSE [s EXCEPT !.calLog = debugLog]

negateOn(s) ==
  IF s.overwrite
  THEN [s EXCEPT !.lcd = <<"0">>, !.overwrite = FALSE, !.calLog = debugLog]
  ELSE IF s.lcd # <<"0">>
  THEN LET l == IF Head(s.lcd) = "-" THEN Tail(s.lcd) ELSE <<"-">> \o s.lcd
       IN  [s EXCEPT !.lcd = l,
                     !.calLog = debugLog \cup highOrLowWarningLog(l)]
  ELSE [s EXCEPT !.calLog = debugLog]

\* the screen op() computes for the pending operation (its switch)
opLcd(s) ==
  LET x == parseFloat(s.lcd)
  IN  CASE s.lastOp = "Add" -> toString(FAdd(s.arg, x))
        [] s.lastOp = "Sub" -> toString(FSub(s.arg, x))
        [] s.lastOp = "Mul" -> toString(FMul(s.arg, x))
        [] s.lastOp = "Div" -> toString(FDiv(s.arg, x))
        [] OTHER -> s.lcd

\* op() that keeps the old operand after showing the pending result
opOnKeepsArg(s, o) ==
  IF s.arg = NULL \/ s.repeat
  THEN [s EXCEPT !.overwrite = TRUE, !.lastOp = o, !.arg = parseFloat(s.lcd),
                 !.repeat = FALSE, !.calLog = debugLog]
  ELSE [s EXCEPT !.lcd = opLcd(s), !.lastOp = o, !.overwrite = TRUE,
                 !.repeat = FALSE, !.calLog = debugLog]

\* the else branch of op(): the pending operation is shown and stored
opCombine(s, o, err) ==
  LET l == opLcd(s)
  IN  [lcd |-> l, arg |-> parseFloat(l), lastOp |-> o,
       overwrite |-> TRUE, repeat |-> FALSE,
       calLog |-> debugLog
                  \cup (IF err THEN {"error"} ELSE {})
                  \cup (IF s.lastOp \in Ops
                        THEN highOrLowWarningLog(l) ELSE {})]

\* op() that forgets to leave repeat mode
opOnKeepsRepeat(s, o) ==
  IF s.arg = NULL \/ s.repeat
  THEN [s EXCEPT !.overwrite = TRUE, !.lastOp = o, !.arg = parseFloat(s.lcd),
                 !.calLog = debugLog]
  ELSE [opCombine(s, o, s.lastOp = "Div" /\ StrictZero(s.arg))
          EXCEPT !.repeat = s.repeat]

\* op() whose division tests the divisor, not the dividend, for zero
opOnTestsDivisor(s, o) ==
  IF s.arg = NULL \/ s.repeat
  THEN [s EXCEPT !.overwrite = TRUE, !.lastOp = o, !.arg = parseFloat(s.lcd),
                 !.repeat = FALSE, !.calLog = debugLog]
  ELSE opCombine(s, o, s.lastOp = "Div" /\ StrictZero(parseFloat(s.lcd)))

\* op() that combines in repeat mode too
opOnIgnoresRepeat(s, o) ==
  IF s.arg = NULL
  THEN [s EXCEPT !.overwrite = TRUE, !.lastOp = o, !.arg = parseFloat(s.lcd),
                 !.repeat = FALSE, !.calLog = debugLog]
  ELSE opCombine(s, o, s.lastOp = "Div" /\ StrictZero(s.arg))

opOn(s, o) ==
  IF s.arg = NULL \/ s.repeat
  THEN [s EXCEPT !.overwrite = TRUE, !.lastOp = o, !.arg = parseFloat(s.lcd),
                 !.repeat = FALSE, !.calLog = debugLog]
  ELSE LET l == opLcd(s)
       IN  [lcd |-> l, arg |-> parseFloat(l), lastOp |-> o,
            overwrite |-> TRUE, repeat |-> FALSE,
            calLog |-> debugLog
                       \cup (IF s.lastOp = "Div" /\ StrictZero(s.arg)
                             THEN {"error"} ELSE {})
                       \cup (IF s.lastOp \in Ops
                             THEN highOrLowWarningLog(l) ELSE {})]

\* the screen equals() computes (its switch)
equalsLcd(s) ==
  LET x == parseFloat(s.lcd)
  IN  CASE s.lastOp = "Add" -> toString(FAdd(s.arg, x))
        [] s.lastOp = "Sub" -> IF s.repeat THEN toString(FSub(x, s.arg))
                                           ELSE toString(FSub(s.arg, x))
        [] s.lastOp = "Mul" -> toString(FMul(s.arg, x))
        [] s.lastOp = "Div" -> IF StrictZero(s.arg) THEN s.lcd
                                                    ELSE toString(FDiv(s.arg, x))
        [] OTHER -> s.lcd

\* equals() that captures the screen as the operand on every call
equalsOnAlwaysCaptures(s) ==
  [lcd |-> equalsLcd(s), arg |-> parseFloat(s.lcd), lastOp |-> s.lastOp,
   overwrite |-> TRUE, repeat |-> TRUE, calLog |-> debugLog \cup {"info"}]

\* equals() that never captures the screen as the operand
equalsOnNeverCaptures(s) ==
  [lcd |-> equalsLcd(s), arg |-> s.arg, lastOp |-> s.lastOp,
   overwrite |-> TRUE, repeat |-> TRUE, calLog |-> debugLog \cup {"info"}]

\* equals() that forgets the operator
equalsOnClearsOperator(s) ==
  [lcd |-> equalsLcd(s), arg |-> IF ~s.repeat THEN parseFloat(s.lcd) ELSE s.arg,
   lastOp |-> "null",
   overwrite |-> TRUE, repeat |-> TRUE, calLog |-> debugLog \cup {"info"}]

equalsOn(s) ==
  LET oldLcd == parseFloat(s.lcd)
      l == equalsLcd(s)
      divZero == s.lastOp = "Div" /\ StrictZero(s.arg)
  IN  [lcd |-> l,
       arg |-> IF ~s.repeat THEN oldLcd ELSE s.arg,
       lastOp |-> s.lastOp,
       overwrite |-> TRUE, repeat |-> TRUE,
       calLog |-> debugLog \cup {"info"}
                  \cup (IF divZero THEN {"error"} ELSE {})
                  \cup (IF s.lastOp \in Ops /\ ~divZero
                        THEN highOrLowWarningLog(l) ELSE {})]

\* clear() whose full reset forgets the operator
clearOnKeepsOperator(s) ==
  LET t == IF s.overwrite
           THEN [s EXCEPT !.arg = NULL, !.repeat = FALSE]
           ELSE s
  IN  [t EXCEPT !.lcd = <<"0">>, !.overwrite = TRUE,
                !.calLog = debugLog \cup {"info"}]

\* clear() that resets everything in append mode too
clearOnAlwaysResets(s) ==
  [s EXCEPT !.arg = NULL, !.lastOp = "null", !.repeat = FALSE,
            !.lcd = <<"0">>, !.overwrite = TRUE,
            !.calLog = debugLog \cup {"info"}]

\* clear() whose full reset keeps the operand
clearOnKeepsOperand(s) ==
  LET t == IF s.overwrite
           THEN [s EXCEPT !.lastOp = "null", !.repeat = FALSE]
           ELSE s
  IN  [t EXCEPT !.lcd = <<"0">>, !.overwrite = TRUE,
                !.calLog = debugLog \cup {"info"}]

\* clear() whose full reset leaves repeat mode on
clearOnKeepsRepeat(s) ==
  LET t == IF s.overwrite
           THEN [s EXCEPT !.arg = NULL, !.lastOp = "null"]
           ELSE s
  IN  [t EXCEPT !.lcd = <<"0">>, !.overwrite = TRUE,
                !.calLog = debugLog \cup {"info"}]

clearOn(s) ==
  LET t == IF s.overwrite
           THEN [s EXCEPT !.arg = NULL, !.lastOp = "null", !.repeat = FALSE]
           ELSE s
  IN  [t EXCEPT !.lcd = <<"0">>, !.overwrite = TRUE,
                !.calLog = debugLog \cup {"info"} \cup highOrLowWarningLog(<<"0">>)]

\* square() that enters overwrite mode
squareOnEntersOverwrite(s) ==
  LET l == toString(FMul(parseFloat(s.lcd), parseFloat(s.lcd)))
  IN  [s EXCEPT !.lcd = l, !.overwrite = TRUE,
                !.calLog = debugLog \cup highOrLowWarningLog(l)]

squareOn(s) ==
  LET l == toString(FMul(parseFloat(s.lcd), parseFloat(s.lcd)))
  IN  [s EXCEPT !.lcd = l, !.calLog = debugLog \cup highOrLowWarningLog(l)]

\* percent() that drops the stored operand
percentOnDropsOperand(s) ==
  LET l == toString(FDiv(parseFloat(s.lcd), Int10(100)))
  IN  [s EXCEPT !.lcd = l, !.arg = NULL,
                !.calLog = debugLog \cup highOrLowWarningLog(l)]

percentOn(s) ==
  LET l == toString(FDiv(parseFloat(s.lcd), Int10(100)))
  IN  [s EXCEPT !.lcd = l, !.calLog = debugLog \cup highOrLowWarningLog(l)]

\* ------------------------------------------------------------ the bounded domain
\* the screen can take one more digit
CanType(s) == s.overwrite
              \/ (Len(s.lcd) < MaxLen
                  /\ (NoPoint(s.lcd) \/ FracLen(s.lcd) < Scale))
\* the screen can take a decimal point (or already has one)
CanPoint(s) == s.overwrite \/ ~NoPoint(s.lcd) \/ Len(s.lcd) < MaxLen
\* a number the stored operand may hold: one the arithmetic is modelled for
Operand(a) == \/ a.k \in {"null", "nzero", "inf", "ninf", "nan"}
              \/ a.k = "fin" /\ InRange(a)
\* the state a handler computed lies in the bounded domain
InDomain(t) == t.lcd # toString(OOB) /\ Operand(t.arg)

\* the configuration of the state machine: the two mode flags and whether
\* an operand is stored
ConfigOf(s) == <<s.overwrite, s.repeat, s.arg # NULL>>

\* ------------------------------------------------------------ actions
Apply(t) ==
  /\ lcd' = t.lcd
  /\ arg' = t.arg
  /\ lastOp' = t.lastOp
  /\ overwrite' = t.overwrite
  /\ repeat' = t.repeat
  /\ calLog' = t.calLog
  /\ seen' = IF seen = {} THEN {} ELSE seen \cup {ConfigOf(t)}

\* the state after construction
Constructed ==
  /\ lcd = InitSt.lcd
  /\ arg = InitSt.arg
  /\ lastOp = InitSt.lastOp
  /\ overwrite = InitSt.overwrite
  /\ repeat = InitSt.repeat
  /\ calLog = InitSt.calLog
  /\ last = "init"
  /\ typed = <<>>

Init == Constructed /\ seen = {}

\* the state after construction, with the initial configuration recorded
InitConfigs == Constructed /\ seen = {ConfigOf(InitSt)}

digit(x) ==
  /\ CanType(St)
  /\ Apply(digitOn(St, x))
  /\ last' = "input"
  /\ typed' = IF overwrite THEN <<x>>
              ELSE IF typed # <<>> THEN Append(typed, x) ELSE <<>>

decimal ==
  /\ CanPoint(St)
  /\ Apply(decimalOn(St))
  /\ last' = "input"
  /\ typed' = <<>>

negate ==
  /\ Apply(negateOn(St))
  /\ last' = "input"
  /\ typed' = <<>>

op(o) ==
  /\ LET t == opOn(St, o) IN InDomain(t) /\ Apply(t)
  /\ last' = IF arg = NULL \/ repeat THEN "op" ELSE "opChain"
  /\ typed' = <<>>

equals ==
  /\ LET t == equalsOn(St) IN InDomain(t) /\ Apply(t)
  /\ last' = IF repeat THEN "equalsRepeat" ELSE "equals"
  /\ typed' = <<>>

clear ==
  /\ Apply(clearOn(St))
  /\ last' = IF overwrite THEN "clearAll" ELSE "clear"
  /\ typed' = <<>>

square ==
  /\ LET t == squareOn(St) IN InDomain(t) /\ Apply(t)
  /\ last' = last
  /\ typed' = <<>>

percent ==
  /\ LET t == percentOn(St) IN InDomain(t) /\ Apply(t)
  /\ last' = last
  /\ typed' = <<>>

Next ==
  \/ \E x \in DigitSet : digit(x)
  \/ decimal
  \/ negate
  \/ \E o \in Ops : op(o)
  \/ equals
  \/ clear
  \/ square
  \/ percent

Spec == Init /\ [][Next]_vars

\* the calculator with the configurations it has been in recorded in seen
SpecConfigs == InitConfigs /\ [][Next]_vars

\* ------------------------------------------------------------ properties
\* the calculator's fields without the log
Fields(s) == [lcd |-> s.lcd, arg |-> s.arg, lastOp |-> s.lastOp,
              overwrite |-> s.overwrite, repeat |-> s.repeat]

\* the combination of two operands the specification names combine(a, b, op)
combine(a, b, o) ==
  CASE o = "Add" -> FAdd(a, b)
    [] o = "Sub" -> FSub(a, b)
    [] o = "Mul" -> FMul(a, b)
    [] o = "Div" -> FDiv(a, b)

\* the step is a call of equals()
EqualsStep == "info" \in calLog' /\ last' \in {"equals", "equalsRepeat"}

\* C1: an operator entered while an operand is pending and repeat mode is
\* off shows combine(arg, value of the screen, lastOp), stores the value of
\* the new screen in arg and the operator in lastOp; from the initial state
\* 2 + 4 + leaves "6", 6 and Add.
ChainedCollapse ==
  /\ (arg # NULL /\ ~repeat) =>
       \A o \in Ops :
         LET t == opOn(St, o)
         IN  InDomain(t) =>
               /\ t.lcd = toString(combine(arg, parseFloat(lcd), lastOp))
               /\ t.arg = parseFloat(t.lcd)
               /\ t.lastOp = o
  /\ (St = InitSt) =>
       LET t == opOn(digitOn(opOn(digitOn(St, 2), "Add"), 4), "Add")
       IN  t.lcd = <<"6">> /\ t.arg = Int10(6) /\ t.lastOp = "Add"

ChainedCollapseReached ==
  /\ last = "opChain" /\ lastOp = "Add" /\ overwrite /\ ~repeat
  /\ lcd = <<"6">> /\ arg = Int10(6)

\* C2: with Add pending, the first equals shows arg + screen and captures
\* the screen as the second operand; every further equals adds exactly that
\* operand to the value shown and keeps it.  From the initial state a + b =
\* shows a+b, and the next two equals show a+2b and a+3b (3 + 5 = = = shows
\* 8, 13, 18).
RepeatedEquals ==
  /\ (lastOp = "Add" /\ IsFinite(arg) /\ IsFinite(parseFloat(lcd))) =>
       LET t == equalsOn(St)
       IN  InDomain(t) =>
             /\ parseFloat(t.lcd).v = parseFloat(lcd).v + arg.v
             /\ t.arg = IF repeat THEN arg ELSE parseFloat(lcd)
             /\ t.lastOp = "Add" /\ t.repeat
  /\ (St = InitSt) =>
       \A a, b \in 0..9 :
         LET s1 == equalsOn(digitOn(opOn(digitOn(St, a), "Add"), b))
             s2 == equalsOn(s1)
             s3 == equalsOn(s2)
         IN  (a + 3 * b <= MaxAbs) =>
               /\ s1.lcd = NatStr(a + b)
               /\ s2.lcd = NatStr(a + 2 * b)
               /\ s3.lcd = NatStr(a + 3 * b)
               /\ s3.arg = Int10(b)

RepeatedEqualsReached ==
  /\ last = "equalsRepeat" /\ lastOp = "Add" /\ repeat
  /\ arg = Int10(4) /\ lcd = <<"1", "0">>

\* C3 (as claimed): equals() with Sub or Div pending shows
\* screen OP arg in repeat mode and arg OP screen otherwise.  (Div with a
\* zero arg is the subject of C4 and is left out here.)
EqualsOperandOrder ==
  [][ (EqualsStep /\ lastOp \in {"Sub", "Div"}
         /\ ~(lastOp = "Div" /\ StrictZero(arg)))
      => LET x == parseFloat(lcd)
             want == IF repeat THEN combine(x, arg, lastOp)
                               ELSE combine(arg, x, lastOp)
         IN  want # OOB => lcd' = toString(want) ]_vars

\* C4 (as claimed): equals() with Div pending and a zero arg notifies the
\* error channel and still shows the result of the division.
EqualsDividesByZero ==
  [][ (EqualsStep /\ lastOp = "Div" /\ StrictZero(arg))
      => /\ "error" \in calLog'
         /\ lcd' \in {toString(FDiv(arg, parseFloat(lcd))),
                      toString(FDiv(parseFloat(lcd), arg))} ]_vars

\* C5 (as claimed): arg and lastOp are both absent or both present.
OperandOperatorPaired == (arg = NULL) <=> (lastOp = "null")

\* C5 (amended): arg and lastOp are both absent or both present, except
\* that arg is present without lastOp in repeat mode, after equals() was
\* called with no operator entered.
OperandOperatorPairedUnlessRepeat ==
  \/ (arg = NULL) <=> (lastOp = "null")
  \/ arg # NULL /\ lastOp = "null" /\ repeat

OperandWithoutOperatorReached ==
  last = "input" /\ arg # NULL /\ lastOp = "null" /\ repeat

\* C6 (as claimed): repeat mode implies that lastOp and arg are present.
RepeatHasOperation == repeat => (arg # NULL /\ lastOp # "null")

\* C6 (amended): repeat mode implies that arg is present; lastOp may be
\* absent (equals() called before any operator).
RepeatHasOperand == repeat => arg # NULL

RepeatWithoutOperatorReached ==
  last = "equals" /\ repeat /\ lastOp = "null" /\ arg = Fin(0)

\* a string of an optional minus sign, digits and at most one point,
\* holding at least one digit
NumericSyntax(l) ==
  LET body == IF l # <<>> /\ Head(l) = "-" THEN Tail(l) ELSE l
  IN  /\ \A i \in 1..Len(body) : body[i] \in DigitChars \cup {"."}
      /\ PointCount(body) <= 1
      /\ DigitCount(body) >= 1

\* C7 (as claimed): the screen always holds a syntactically valid numeric
\* string whose value is finite.
DisplayFinite == NumericSyntax(lcd) /\ IsFinite(parseFloat(lcd))

\* C8: the screen never holds two decimal points; in append mode decimal()
\* appends a point to a screen without one and leaves another screen as it
\* is, so two calls leave exactly one point.
OneDecimalPoint ==
  /\ PointCount(lcd) <= 1
  /\ ~overwrite =>
       LET t == decimalOn(St)
           u == decimalOn(t)
       IN  /\ NoPoint(lcd) => t.lcd = Append(lcd, ".")
           /\ ~NoPoint(lcd) => t.lcd = lcd
           /\ PointCount(t.lcd) = 1 /\ PointCount(u.lcd) = 1
           /\ ~t.overwrite /\ ~u.overwrite

OneDecimalPointReached == ~overwrite /\ last = "input" /\ lcd = <<"2", ".">>

\* C9: after a run of digit calls that began in overwrite mode the screen
\* is exactly the digits entered, in order, and overwrite mode is off; 7, 0
\* entered in overwrite mode gives "70".
DigitsConcatenate ==
  /\ typed # <<>> =>
       /\ lcd = [i \in 1..Len(typed) |-> DigitChar(typed[i])]
       /\ ~overwrite
  /\ overwrite =>
       LET t == digitOn(digitOn(St, 7), 0)
       IN  t.lcd = <<"7", "0">> /\ ~t.overwrite

DigitsConcatenateReached == typed = <<2, 0>> /\ lcd = <<"2", "0">> /\ ~overwrite

\* C10: in append mode, on a screen other than "0", negate() adds a leading
\* minus sign or strips the one there, and a second negate() restores the
\* screen and leaves every other field as it was.
NegateInvolution ==
  (~overwrite /\ lcd # <<"0">>) =>
    LET t == negateOn(St)
        u == negateOn(t)
    IN  /\ Head(lcd) = "-" => t.lcd = Tail(lcd)
        /\ Head(lcd) # "-" => t.lcd = <<"-">> \o lcd
        /\ Fields(t) = [Fields(St) EXCEPT !.lcd = t.lcd]
        /\ Fields(u) = Fields(St)

NegateInvolutionReached == ~overwrite /\ last = "input" /\ lcd = <<"-", "2">>

\* C11: clear() in append mode shows "0", enters overwrite mode and leaves
\* arg, lastOp and repeat as they were; clear() in overwrite mode restores
\* the constructor's values; so two clear() calls in a row always end in
\* the initial state.
ClearTwoStage ==
  LET t == clearOn(St)
      u == clearOn(t)
  IN  /\ ~overwrite =>
           Fields(t) = [Fields(St) EXCEPT !.lcd = <<"0">>, !.overwrite = TRUE]
      /\ overwrite => Fields(t) = Fields(InitSt)
      /\ Fields(u) = Fields(InitSt)

ClearTwoStageReached ==
  /\ last = "clear" /\ lcd = <<"0">> /\ overwrite
  /\ arg = Int10(4) /\ lastOp = "Add" /\ repeat

\* C12: after op(o), for every operator o, overwrite mode is on, repeat
\* mode is off, lastOp is o and arg is the value of the screen.
OpPostState ==
  [](\A o \in Ops :
       LET t == opOn(St, o)
       IN  InDomain(t) =>
             /\ t.overwrite /\ ~t.repeat
             /\ t.lastOp = o
             /\ t.arg = parseFloat(t.lcd))

OpPostStateReached ==
  /\ last = "op" /\ overwrite /\ ~repeat
  /\ lastOp = "Mul" /\ arg = Int10(8) /\ lcd = <<"8">>

\* C13: equals() stores the value the screen had before the call in arg
\* when repeat mode was off and leaves arg as it was when repeat mode was
\* on; either way lastOp is unchanged and repeat and overwrite mode are on
\* afterwards.
EqualsCapture ==
  [][ EqualsStep =>
        /\ ~repeat => arg' = parseFloat(lcd)
        /\ repeat => arg' = arg
        /\ lastOp' = lastOp
        /\ repeat' /\ overwrite' ]_vars

EqualsCaptureReached ==
  /\ last = "equals" /\ repeat /\ overwrite
  /\ lastOp = "Sub" /\ arg = Int10(2) /\ lcd = <<"2">>

\* C14: square() and percent() change the screen only, to the string of
\* value * value and of value / 100; arg, lastOp, overwrite and repeat are
\* left alone, so in append mode a digit entered next is appended to the
\* result.
SquarePercentFrame ==
  [](LET v == parseFloat(lcd)
         sq == squareOn(St)
         pc == percentOn(St)
     IN  /\ Fields(sq) = [Fields(St) EXCEPT !.lcd = toString(FMul(v, v))]
         /\ Fields(pc) = [Fields(St) EXCEPT !.lcd = toString(FDiv(v, Int10(100)))]
         /\ ~overwrite =>
              \A x \in 0..9 :
                /\ digitOn(sq, x).lcd = Append(sq.lcd, DigitChar(x))
                /\ digitOn(pc, x).lcd = Append(pc.lcd, DigitChar(x)))

SquarePercentFrameReached ==
  /\ ~overwrite /\ last = "input" /\ lcd = <<"1", "6">>
  /\ arg = Int10(2) /\ lastOp = "Add" /\ ~repeat

\* C15: op() with Div pending, an operand stored and repeat mode off
\* notifies the error channel exactly when arg is zero (the dividend), and
\* always shows arg / screen; 0 / 5 + logs an error and shows "0", and a
\* nonzero arg divided by a screen of 0 logs no error.
OpDivisionError ==
  /\ (arg # NULL /\ ~repeat /\ lastOp = "Div") =>
       \A o \in Ops :
         LET t == opOn(St, o)
         IN  InDomain(t) =>
               /\ "error" \in t.calLog <=> IsZero(arg)
               /\ t.lcd = toString(FDiv(arg, parseFloat(lcd)))
               /\ (~IsZero(arg) /\ IsZero(parseFloat(lcd))) =>
                    "error" \notin t.calLog
  /\ (St = InitSt) =>
       LET t == opOn(digitOn(opOn(digitOn(St, 0), "Div"), 5), "Add")
           u == opOn(digitOn(opOn(digitOn(St, 5), "Div"), 0), "Add")
       IN  /\ "error" \in t.calLog /\ t.lcd = <<"0">>
           /\ "error" \notin u.calLog /\ u.lcd = InfinityStr

OpDivisionErrorReached ==
  /\ last = "opChain" /\ "error" \in calLog
  /\ lcd = <<"0">> /\ arg = Fin(0) /\ lastOp = "Add"

\* every field but the log holds the value the constructor gave it
InitialValues == Fields(St) = Fields(InitSt)

\* the step is a call of clear()
ClearStep == "info" \in calLog' /\ last' \in {"clear", "clearAll"}

\* the step makes arg or lastOp absent
OperandOrOperatorLost ==
  \/ arg # NULL /\ arg' = NULL
  \/ lastOp # "null" /\ lastOp' = "null"

\* the step brings every field back to the constructor's values
ReturnsToInitial == ~InitialValues /\ InitialValues'

\* C16 (as claimed): a step that makes arg or lastOp absent, or that
\* brings the whole state back to the initial values, is a clear() call
\* made in overwrite mode.
OnlyFullClearResets ==
  [][ (OperandOrOperatorLost \/ ReturnsToInitial)
      => (overwrite /\ ClearStep) ]_vars

\* C16 (amended): a step that makes arg or lastOp absent is a clear() call
\* made in overwrite mode; a step that brings the whole state back to the
\* initial values is a clear() call, made in overwrite mode or made in
\* append mode with arg and lastOp absent and repeat mode off.
OnlyClearResets ==
  [][ /\ OperandOrOperatorLost => (overwrite /\ ClearStep)
      /\ ReturnsToInitial =>
           /\ ClearStep
           /\ overwrite \/ (arg = NULL /\ lastOp = "null" /\ ~repeat) ]_vars

AppendClearReturnsToInitial == last = "clear" /\ InitialValues

\* C17: op(o) with no operand stored, or in repeat mode, leaves the screen
\* as it is, stores the value of the screen in arg and o in lastOp; so
\* 3 + 5 = + 2 = shows "10".
OpStartsChain ==
  /\ (arg = NULL \/ repeat) =>
       \A o \in Ops :
         LET t == opOn(St, o)
         IN  t.lcd = lcd /\ t.arg = parseFloat(lcd) /\ t.lastOp = o
  /\ (St = InitSt) =>
       LET s1 == equalsOn(digitOn(opOn(digitOn(St, 3), "Add"), 5))
           s2 == opOn(s1, "Add")
           s3 == equalsOn(digitOn(s2, 2))
       IN  /\ s1.lcd = <<"8">> /\ s1.arg = Int10(5)
           /\ s2.lcd = <<"8">> /\ s2.arg = Int10(8)
           /\ s3.lcd = <<"1", "0">>

OpStartsChainReached ==
  /\ last = "op" /\ overwrite /\ ~repeat
  /\ lastOp = "Add" /\ arg = Int10(8) /\ lcd = <<"8">>

\* the configuration the calculator is in
Config == ConfigOf(St)
InitConfig == ConfigOf(InitSt)
AllConfigs == BOOLEAN \X BOOLEAN \X BOOLEAN
\* the configurations other than repeat mode without an operand
SixConfigs == {c \in AllConfigs : c[2] => c[3]}

\* C18 (as claimed): the configuration starts at (TRUE, FALSE, FALSE) and
\* takes four values in all.
FourConfigurations ==
  InitConfig \in seen /\ Cardinality(seen) <= 4

\* C18 (amended): the configuration starts at (TRUE, FALSE, FALSE) and
\* takes six values in all: every combination of the flags and the operand
\* except repeat mode without an operand.
SixConfigurations ==
  InitConfig \in seen /\ Config \in seen /\ seen \subseteq SixConfigs

SixConfigurationsReached == seen = SixConfigs

\* the step is a call of op()
OpStep == "info" \notin calLog' /\ last' \in {"op", "opChain"}

\* C19: whenever lastOp is present arg is present; a step that stores an
\* operator is a call of op() and leaves an operand stored, and a step
\* that removes the operator is a call of clear() and removes the operand
\* with it.
OperatorHasOperand ==
  /\ [](lastOp # "null" => arg # NULL)
  /\ [][ lastOp' # lastOp =>
           \/ lastOp' \in Ops /\ arg' # NULL /\ OpStep
           \/ lastOp' = "null" /\ arg' = NULL /\ ClearStep ]_vars

OperatorHasOperandReached ==
  last = "op" /\ lastOp = "Div" /\ arg = Int10(2) /\ ~repeat

\* C20: overwrite mode is on exactly when no button other than square and
\* percent has been pressed yet or the most recent one was op, equals or
\* clear, and off exactly when the most recent one was digit, decimal or
\* negate; these three never change arg, lastOp or repeat.
OverwriteByLastButton ==
  /\ [](overwrite <=> last \in {"init", "op", "opChain", "equals",
                                "equalsRepeat", "clear", "clearAll"})
  /\ [](~overwrite <=> last = "input")
  /\ [][ last' = "input" =>
           (arg' = arg /\ lastOp' = lastOp /\ repeat' = repeat) ]_vars

OverwriteByLastButtonReached ==
  /\ last = "input" /\ ~overwrite /\ repeat
  /\ lastOp = "Mul" /\ lcd = <<"0">>

====
